---- MODULE Spec2Model ----
(***************************************************************************)
(* Model of api/analyze.js: the request handler, the heading extraction,   *)
(* analyzeHeadingIssues and generateImprovedSuggestions with its keyword   *)
(* predicates.                                                             *)
(*                                                                         *)
(* A JavaScript string is modelled as the sequence of its characters, so   *)
(* that trim, toLowerCase, includes and the \d{4} test are computed on the *)
(* characters as the code computes them.                                   *)
(***************************************************************************)
EXTENDS Integers, Sequences, FiniteSets, TLC

VARIABLES pc, method, body, response, html, headings, issues, suggestions, status, reply, invoked

vars == <<pc, method, body, response, html, headings, issues, suggestions, status, reply, invoked>>

\* Largest number of heading elements in a fetched page.
MaxLen == 4

\* text.substring(0, 150)
MaxTextLen == 150

(***************************************************************************)
(* Strings                                                                 *)
(***************************************************************************)
UpperChars == <<"A","B","C","D","E","F","G","H","I","J","K","L","M",
                "N","O","P","Q","R","S","T","U","V","W","X","Y","Z">>

LowerChars == <<"a","b","c","d","e","f","g","h","i","j","k","l","m",
                "n","o","p","q","r","s","t","u","v","w","x","y","z">>

Digits == {"0","1","2","3","4","5","6","7","8","9"}

Min(a, b) == IF a < b THEN a ELSE b

\* the lower-case letter of each upper-case letter
LowerOf ==
    [c \in {UpperChars[k] : k \in 1..Len(UpperChars)} |->
        LowerChars[CHOOSE k \in 1..Len(UpperChars) : UpperChars[k] = c]]

\* String.prototype.toLowerCase
toLowerCase(text) ==
    [i \in 1..Len(text) |->
        IF text[i] \in DOMAIN LowerOf THEN LowerOf[text[i]] ELSE text[i]]

\* String.prototype.includes
includes(text, pattern) ==
    \E i \in 0..(Len(text) - Len(pattern)) :
        \A j \in 1..Len(pattern) : text[i + j] = pattern[j]

\* /\d{4}/.test(text)
hasFourDigits(text) ==
    \E i \in 0..(Len(text) - 4) : \A j \in 1..4 : text[i + j] \in Digits

RECURSIVE trimStart(_)
trimStart(text) ==
    IF Len(text) > 0 /\ Head(text) = " " THEN trimStart(Tail(text)) ELSE text

RECURSIVE trimEnd(_)
trimEnd(text) ==
    IF Len(text) > 0 /\ text[Len(text)] = " "
    THEN trimEnd(SubSeq(text, 1, Len(text) - 1))
    ELSE text

\* String.prototype.trim
trim(text) == trimEnd(trimStart(text))

\* text.substring(0, 150)
substring150(text) == SubSeq(text, 1, Min(Len(text), MaxTextLen))

\* parseInt(element.tagName.charAt(1))
parseLevel(tagName) ==
    CHOOSE n \in 0..9 : <<"0","1","2","3","4","5","6","7","8","9">>[n + 1] = tagName[2]

(***************************************************************************)
(* Keyword predicates                                                      *)
(***************************************************************************)
isArticleOrGuide(text) ==
    LET lowerText == toLowerCase(text) IN
    \/ includes(lowerText, <<"g","u","i","d","e">>)
    \/ includes(lowerText, <<"h","o","w"," ","t","o">>)
    \/ includes(lowerText, <<"t","u","t","o","r","i","a","l">>)
    \/ includes(lowerText, <<"t","i","p","s">>)
    \/ hasFourDigits(text)
    \/ includes(lowerText, <<"d","e","t","e","c","t","i","o","n">>)
    \/ includes(lowerText, <<"s","e","c","u","r","e">>)
    \/ includes(lowerText, <<"a","u","t","o","m","a","t","e">>)

isSectionTitle(text) ==
    LET lowerText == toLowerCase(text) IN
    \/ includes(lowerText, <<"b","l","o","g"," ","p","o","s","t","s">>)
    \/ includes(lowerText, <<"a","r","t","i","c","l","e","s">>)
    \/ includes(lowerText, <<"n","e","w","s">>)
    \/ includes(lowerText, <<"u","p","d","a","t","e","s">>)
    \/ includes(lowerText, <<"m","o","r","e">>)

isFooterOrCallToAction(text) ==
    LET lowerText == toLowerCase(text) IN
    \/ includes(lowerText, <<"s","u","b","s","c","r","i","b","e">>)
    \/ includes(lowerText, <<"c","o","n","t","a","c","t">>)
    \/ includes(lowerText, <<"m","a","k","i","n","g"," ","e","v","e","r","y">>)
    \/ includes(lowerText, <<"d","a","y","-","i","n","-","t","h","e","-","l","i","f","e">>)
    \/ includes(lowerText, <<"g","e","t"," ","s","t","a","r","t","e","d">>)
    \/ includes(lowerText, <<"l","e","a","r","n"," ","m","o","r","e">>)

\* s.text.toLowerCase().includes('article') || ...('blog') || ...('post')
mentionsArticles(text) ==
    LET lowerText == toLowerCase(text) IN
    \/ includes(lowerText, <<"a","r","t","i","c","l","e">>)
    \/ includes(lowerText, <<"b","l","o","g">>)
    \/ includes(lowerText, <<"p","o","s","t">>)

\* heading elements a fetched page is made of
Elements ==
    {[tagName |-> <<"h","1">>, text |-> <<" ","H","o","m","e"," ">>],
     [tagName |-> <<"h","2">>, text |-> <<"H","o","m","e">>],
     [tagName |-> <<"h","3">>, text |-> <<"H","o","m","e">>],
     [tagName |-> <<"h","5">>, text |-> <<"H","o","m","e">>],
     [tagName |-> <<"h","2">>, text |-> <<" "," ">>],
     [tagName |-> <<"h","2">>, text |-> <<"B","l","o","g"," ","P","o","s","t","s">>],
     [tagName |-> <<"h","4">>, text |-> <<"N","e","w","s">>],
     [tagName |-> <<"h","3">>, text |-> <<"G","u","i","d","e"," ","2","0","2","4">>],
     [tagName |-> <<"h","2">>, text |-> <<"P","o","s","t">>],
     [tagName |-> <<"h","3">>, text |-> <<"C","o","n","t","a","c","t">>],
     [tagName |-> <<"h","3">>, text |-> <<"M","o","r","e"," ","T","i","p","s">>],
     [tagName |-> <<"h","4">>, text |-> <<"S","e","c","u","r","e"," ","C","o","n","t","a","c","t">>]}

\* text of the synthetic section heading
RecentArticles == <<"R","e","c","e","n","t"," ","A","r","t","i","c","l","e","s">>

\* every text a heading or a suggestion of these pages can carry
PageTexts == {trim(e.text) : e \in Elements} \cup {RecentArticles}

\* The predicates are pure functions of the text: their values on the texts
\* of the pages are computed once and looked up afterwards.
ArticleOrGuideMemo == [t \in PageTexts |-> isArticleOrGuide(t)]

SectionTitleMemo == [t \in PageTexts |-> isSectionTitle(t)]

FooterOrCallToActionMemo == [t \in PageTexts |-> isFooterOrCallToAction(t)]

MentionsArticlesMemo == [t \in PageTexts |-> mentionsArticles(t)]

articleOrGuide(text) ==
    IF text \in PageTexts THEN ArticleOrGuideMemo[text] ELSE isArticleOrGuide(text)

sectionTitle(text) ==
    IF text \in PageTexts THEN SectionTitleMemo[text] ELSE isSectionTitle(text)

footerOrCallToAction(text) ==
    IF text \in PageTexts THEN FooterOrCallToActionMemo[text] ELSE isFooterOrCallToAction(text)

articlesMentioned(text) ==
    IF text \in PageTexts THEN MentionsArticlesMemo[text] ELSE mentionsArticles(text)

\* hasRecentArticlesSection without the test s.level === 2
hasRecentArticlesAtAnyLevel(suggs) ==
    \E k \in 1..Len(suggs) : articlesMentioned(suggs[k].text)

\* hasRecentArticlesSection with the level test written s.level === 3
hasRecentArticlesAtLevel3(suggs) ==
    \E k \in 1..Len(suggs) : suggs[k].level = 3 /\ articlesMentioned(suggs[k].text)

hasRecentArticlesSection(suggs) ==
    \E k \in 1..Len(suggs) : suggs[k].level = 2 /\ articlesMentioned(suggs[k].text)

(***************************************************************************)
(* analyzeHeadingIssues                                                    *)
(***************************************************************************)
CountLevel(hs, lv) == Cardinality({k \in 1..Len(hs) : hs[k].level = lv})

\* "No heading tags found on the page"
NoHeadingsIssue == [kind |-> "NoHeadings"]

\* "No H1 tag found - every page should have exactly one H1"
MissingH1Issue == [kind |-> "MissingH1"]

\* `Multiple H1 tags found (${h1Count}) - should have only one H1 per page`
MultipleH1Issue(h1Count) == [kind |-> "MultipleH1", count |-> h1Count]

\* `Skipped heading level: H${previous.level} followed by H${current.level}
\*  (should use H${previous.level + 1})`
SkipIssue(previous, current) ==
    [kind |-> "Skip", previous |-> previous.level, current |-> current.level,
     expected |-> previous.level + 1]

\* "Page should start with an H1 heading"
StartIssue == [kind |-> "StartWithH1"]

\* "Consider adding more H2 sections to better organize your H3 subsections"
OrganizeIssue == [kind |-> "MoreH2"]

\* H1Check with the second comparison written h1Count > 0
H1CheckAnyH1(hs) ==
    LET h1Count == CountLevel(hs, 1) IN
    IF h1Count = 0 THEN <<MissingH1Issue>>
    ELSE IF h1Count > 0 THEN <<MultipleH1Issue(h1Count)>>
    ELSE <<>>

H1Check(hs) ==
    LET h1Count == CountLevel(hs, 1) IN
    IF h1Count = 0 THEN <<MissingH1Issue>>
    ELSE IF h1Count > 1 THEN <<MultipleH1Issue(h1Count)>>
    ELSE <<>>

RECURSIVE SkipCheckAnyDeeper(_, _)
\* SkipCheck with the comparison written current.level > previous.level
SkipCheckAnyDeeper(hs, i) ==
    IF i > Len(hs) THEN <<>>
    ELSE (IF hs[i].level > hs[i - 1].level
          THEN <<SkipIssue(hs[i - 1], hs[i])>>
          ELSE <<>>) \o SkipCheckAnyDeeper(hs, i + 1)

RECURSIVE SkipCheck(_, _)
\* the for loop of the level-skip check, from index i (1-based) to the end
SkipCheck(hs, i) ==
    IF i > Len(hs) THEN <<>>
    ELSE (IF hs[i].level > hs[i - 1].level + 1
          THEN <<SkipIssue(hs[i - 1], hs[i])>>
          ELSE <<>>) \o SkipCheck(hs, i + 1)

StartCheck(hs) ==
    IF Len(hs) > 0 /\ hs[1].level # 1 THEN <<StartIssue>> ELSE <<>>

OrganizeCheck(hs) ==
    LET h2Count == CountLevel(hs, 2)
        h3Count == CountLevel(hs, 3) IN
    IF h3Count > 0 /\ h2Count < 2 THEN <<OrganizeIssue>> ELSE <<>>

\* analyzeHeadingIssues without the return of the empty case
analyzeWithoutEarlyReturn(hs) ==
    (IF Len(hs) = 0 THEN <<NoHeadingsIssue>> ELSE <<>>)
        \o H1Check(hs) \o SkipCheck(hs, 2) \o StartCheck(hs) \o OrganizeCheck(hs)

\* analyzeHeadingIssues with the start-level check moved before the skip loop
analyzeStartFirst(hs) ==
    IF Len(hs) = 0 THEN <<NoHeadingsIssue>>
    ELSE H1Check(hs) \o StartCheck(hs) \o SkipCheck(hs, 2) \o OrganizeCheck(hs)

analyzeHeadingIssues(hs) ==
    IF Len(hs) = 0 THEN <<NoHeadingsIssue>>
    ELSE H1Check(hs) \o SkipCheck(hs, 2) \o StartCheck(hs) \o OrganizeCheck(hs)

(***************************************************************************)
(* generateImprovedSuggestions                                             *)
(***************************************************************************)
Bootstrap ==
    << [level |-> 1, text |-> <<"A","d","d"," ","a"," ","m","a","i","n"," ","p","a","g","e"," ","t","i","t","l","e"," ","(","H","1",")">>],
       [level |-> 2, text |-> <<"A","d","d"," ","s","e","c","t","i","o","n"," ","h","e","a","d","i","n","g","s"," ","(","H","2",")">>],
       [level |-> 3, text |-> <<"A","d","d"," ","s","u","b","s","e","c","t","i","o","n"," ","h","e","a","d","i","n","g","s"," ","(","H","3",")"," ","a","s"," ","n","e","e","d","e","d">>] >>

\* Branch with the footer test moved before the article test
BranchFooterFirst(suggs, heading) ==
    LET previousSuggestion == suggs[Len(suggs)] IN
    IF sectionTitle(heading.text) THEN "section"
    ELSE IF footerOrCallToAction(heading.text) THEN "footer"
    ELSE IF articleOrGuide(heading.text) /\ previousSuggestion.level <= 2 THEN "article"
    ELSE "default"

\* which arm of the if / else-if chain the loop body takes; suggs is never
\* empty here, so the test "previousSuggestion &&" of the article arm is true
Branch(suggs, heading) ==
    LET previousSuggestion == suggs[Len(suggs)] IN
    IF sectionTitle(heading.text) THEN "section"
    ELSE IF articleOrGuide(heading.text) /\ previousSuggestion.level <= 2 THEN "article"
    ELSE IF footerOrCallToAction(heading.text) THEN "footer"
    ELSE "default"

suggestedLevel(suggs, heading) ==
    LET previousSuggestion == suggs[Len(suggs)]
        taken == Branch(suggs, heading) IN
    IF taken = "section" THEN 2
    ELSE IF taken = "article" THEN 3
    ELSE IF taken = "footer" THEN 2
    ELSE Min(heading.level, previousSuggestion.level + 1)

\* the push of the synthetic section inside the article arm
withArticlesSection(suggs, heading) ==
    IF Branch(suggs, heading) = "article" /\ ~hasRecentArticlesSection(suggs)
    THEN Append(suggs, [level |-> 2, text |-> RecentArticles])
    ELSE suggs

\* one iteration of the for loop
LoopBody(suggs, heading) ==
    Append(withArticlesSection(suggs, heading),
           [level |-> suggestedLevel(suggs, heading), text |-> heading.text])

RECURSIVE SuggestLoop(_, _, _)
\* the suggestions array after the iterations for indices 2..n (1-based)
SuggestLoop(hs, n, first) ==
    IF n < 2 THEN first
    ELSE LoopBody(SuggestLoop(hs, n - 1, first), hs[n])

\* SuggestionsAfter with the first suggestion keeping the record's own level
SuggestionsAfterKeepingLevel(hs, n) ==
    SuggestLoop(hs, n, <<[level |-> hs[1].level, text |-> hs[1].text]>>)

\* the suggestions array once the record at 1-based index n has been processed
SuggestionsAfter(hs, n) ==
    SuggestLoop(hs, n, <<[level |-> 1, text |-> hs[1].text]>>)

generateImprovedSuggestions(hs) ==
    IF Len(hs) = 0 THEN Bootstrap
    ELSE SuggestionsAfter(hs, Len(hs))

(***************************************************************************)
(* Heading extraction                                                      *)
(***************************************************************************)
RECURSIVE extractHeadings(_)
\* $('h1, h2, h3, h4, h5, h6').each(...)
extractHeadings(elements) ==
    IF Len(elements) = 0 THEN <<>>
    ELSE LET element == Head(elements)
             level == parseLevel(element.tagName)
             text == trim(element.text)
         IN (IF Len(text) > 0
             THEN <<[level |-> level, text |-> substring150(text)]>>
             ELSE <<>>) \o extractHeadings(Tail(elements))

(***************************************************************************)
(* The request handler                                                     *)
(***************************************************************************)
Methods == {"OPTIONS", "GET", "POST"}

\* req.body: undefined, or an object whose url is undefined, "" or a URL
Bodies ==
    {[present |-> FALSE, url |-> "undefined"],
     [present |-> TRUE, url |-> "undefined"],
     [present |-> TRUE, url |-> ""],
     [present |-> TRUE, url |-> "https://example.com"]}

\* !url
falsy(url) == url \in {"undefined", ""}


\* the pages response.text() can resolve to, as their heading elements in document order
Pages == UNION {[1..n -> Elements] : n \in 0..MaxLen}

Init ==
    /\ pc = "start"
    /\ method \in Methods
    /\ body \in Bodies
    /\ response = "none"
    /\ html = <<>>
    /\ headings = <<>>
    /\ issues = <<>>
    /\ suggestions = <<>>
    /\ status = 0
    /\ reply = "none"
    /\ invoked = {}

\* res.status(code) followed by .end() or .json(...) without a success payload
Respond(code, kind) ==
    /\ pc' = "done"
    /\ status' = code
    /\ reply' = kind
    /\ UNCHANGED <<method, body, html, headings, issues, suggestions, invoked>>

\* if (req.method === 'OPTIONS') { res.status(200).end(); return; }
Preflight ==
    /\ pc = "start"
    /\ method = "OPTIONS"
    /\ UNCHANGED response
    /\ Respond(200, "end")

\* if (req.method !== 'POST') return res.status(405).json({ error })
MethodNotAllowed ==
    /\ pc = "start"
    /\ method # "OPTIONS"
    /\ method # "POST"
    /\ UNCHANGED response
    /\ Respond(405, "error")

\* const { url } = req.body throws when req.body is undefined; the catch answers 500
BodyThrows ==
    /\ pc = "start"
    /\ method = "POST"
    /\ ~body.present
    /\ UNCHANGED response
    /\ Respond(500, "error")

\* if (!url) return res.status(400).json({ error: 'URL is required' })
UrlRequired ==
    /\ pc = "start"
    /\ method = "POST"
    /\ body.present
    /\ falsy(body.url)
    /\ UNCHANGED response
    /\ Respond(400, "error")

\* await fetch(url, ...)
StartFetch ==
    /\ pc = "start"
    /\ method = "POST"
    /\ body.present
    /\ ~falsy(body.url)
    /\ pc' = "fetch"
    /\ UNCHANGED <<method, body, response, html, headings, issues, suggestions, status, reply, invoked>>

\* fetch rejects (network failure, malformed URL); the catch answers 500
FetchRejects ==
    /\ pc = "fetch"
    /\ response' = "rejected"
    /\ Respond(500, "error")

\* FetchNotOk falling through to the catch instead of answering 400
FetchNotOkAnswers500 ==
    /\ pc = "fetch"
    /\ response' = "notOk"
    /\ Respond(500, "error")

\* if (!response.ok) return res.status(400).json({ error })
FetchNotOk ==
    /\ pc = "fetch"
    /\ response' = "notOk"
    /\ Respond(400, "error")

\* fetch resolves with response.ok, carrying some page: await response.text()
FetchOk ==
    /\ pc = "fetch"
    /\ pc' = "text"
    /\ response' = "ok"
    /\ html' \in Pages
    /\ UNCHANGED <<method, body, headings, issues, suggestions, status, reply, invoked>>

\* response.text() rejects or cheerio.load throws; the catch answers 500
TextRejects ==
    /\ pc = "text"
    /\ UNCHANGED response
    /\ Respond(500, "error")

\* response.text() resolves: extract, analyse, suggest, res.status(200).json(...)
Analyze ==
    /\ pc = "text"
    /\ headings' = extractHeadings(html)
    /\ issues' = analyzeHeadingIssues(headings')
    /\ suggestions' = generateImprovedSuggestions(headings')
    /\ invoked' = {"analyzeHeadingIssues", "generateImprovedSuggestions"}
    /\ pc' = "done"
    /\ status' = 200
    /\ reply' = "success"
    /\ UNCHANGED <<method, body, response, html>>

Next ==
    \/ Preflight
    \/ MethodNotAllowed
    \/ BodyThrows
    \/ UrlRequired
    \/ StartFetch
    \/ FetchRejects
    \/ FetchNotOk
    \/ FetchOk
    \/ TextRejects
    \/ Analyze

Spec == Init /\ [][Next]_vars

(***************************************************************************)
(* Properties                                                              *)
(***************************************************************************)
\* the handler has answered with the analysis of the page
Answered == pc = "done" /\ reply = "success"

NumHeadings == Len(headings)

LevelsOf(seq) == [k \in 1..Len(seq) |-> seq[k].level]

TextsOf(seq) == [k \in 1..Len(seq) |-> seq[k].text]

HasIssueKind(kind) == \E k \in 1..Len(issues) : issues[k].kind = kind

\* C2: for a non-empty heading sequence the first suggestion has level 1 and
\* the text of the first heading, whatever that heading's level.
C2_FirstIsLevelOne ==
    (Answered /\ NumHeadings > 0) =>
        /\ Len(suggestions) > 0
        /\ suggestions[1].level = 1
        /\ suggestions[1].text = headings[1].text

C2_Witness ==
    /\ Answered
    /\ NumHeadings > 1
    /\ headings[1].level = 5
    /\ suggestions[1].level = 1

\* C5 as stated: for no headings the only issue is the no-headings issue and
\* the suggestions are level 1 "Add a main page title", level 2 "Add section
\* headings", level 3 "Add subsection headings as needed".
C5_AsStated ==
    (Answered /\ NumHeadings = 0) =>
        /\ issues = <<NoHeadingsIssue>>
        /\ suggestions =
            << [level |-> 1, text |-> <<"A","d","d"," ","a"," ","m","a","i","n"," ","p","a","g","e"," ","t","i","t","l","e">>],
               [level |-> 2, text |-> <<"A","d","d"," ","s","e","c","t","i","o","n"," ","h","e","a","d","i","n","g","s">>],
               [level |-> 3, text |-> <<"A","d","d"," ","s","u","b","s","e","c","t","i","o","n"," ","h","e","a","d","i","n","g","s"," ","a","s"," ","n","e","e","d","e","d">>] >>

\* C5 amended: for no headings the only issue is the no-headings issue and the
\* suggestions are level 1 "Add a main page title (H1)", level 2 "Add section
\* headings (H2)", level 3 "Add subsection headings (H3) as needed".
C5_EmptyInput ==
    (Answered /\ NumHeadings = 0) =>
        /\ issues = <<NoHeadingsIssue>>
        /\ LevelsOf(suggestions) = <<1, 2, 3>>
        /\ suggestions[1].text = <<"A","d","d"," ","a"," ","m","a","i","n"," ","p","a","g","e"," ","t","i","t","l","e"," ","(","H","1",")">>
        /\ suggestions[2].text = <<"A","d","d"," ","s","e","c","t","i","o","n"," ","h","e","a","d","i","n","g","s"," ","(","H","2",")">>
        /\ suggestions[3].text = <<"A","d","d"," ","s","u","b","s","e","c","t","i","o","n"," ","h","e","a","d","i","n","g","s"," ","(","H","3",")"," ","a","s"," ","n","e","e","d","e","d">>

C5_Witness ==
    /\ Answered
    /\ NumHeadings = 0
    /\ Len(html) > 0
    /\ Len(issues) = 1
    /\ Len(suggestions) = 3

\* the 1-based indices whose record is more than one level deeper than the one before
OffendingPairs == {i \in 2..NumHeadings : headings[i].level > headings[i - 1].level + 1}

IsSkipIssue(issue) == issue.kind = "Skip"

\* C6: the skip issues are, in document order, one per adjacent pair with
\* current.level > previous.level + 1, each naming the previous level, the
\* current level and previous.level + 1; no such pair, no skip issue.
C6_OneSkipIssuePerPair ==
    (Answered /\ NumHeadings > 0) =>
        LET skips == SelectSeq(issues, IsSkipIssue) IN
        /\ Len(skips) = Cardinality(OffendingPairs)
        /\ \A i \in OffendingPairs :
            LET rank == Cardinality({j \in OffendingPairs : j <= i}) IN
            /\ skips[rank].previous = headings[i - 1].level
            /\ skips[rank].current = headings[i].level
            /\ skips[rank].expected = headings[i - 1].level + 1

C6_Witness ==
    /\ Answered
    /\ Cardinality(OffendingPairs) = 2
    /\ Len(SelectSeq(issues, IsSkipIssue)) = 2
    /\ NumHeadings = 4

NumH1 == Cardinality({k \in 1..NumHeadings : headings[k].level = 1})

\* C7: the missing-H1 issue is present iff there is no level-1 record, the
\* multiple-H1 issue iff there is more than one, and it then carries that
\* number; with exactly one level-1 record neither is present.
C7_H1CountIssue ==
    (Answered /\ NumHeadings > 0) =>
        /\ HasIssueKind("MissingH1") <=> NumH1 = 0
        /\ HasIssueKind("MultipleH1") <=> NumH1 > 1
        /\ \A k \in 1..Len(issues) :
            issues[k].kind = "MultipleH1" => issues[k].count = NumH1
        /\ ~(HasIssueKind("MissingH1") /\ HasIssueKind("MultipleH1"))
        /\ Cardinality({k \in 1..Len(issues) :
                            issues[k].kind \in {"MissingH1", "MultipleH1"}}) <= 1

C7_Witness ==
    /\ Answered
    /\ NumH1 = 3
    /\ \E k \in 1..Len(issues) : issues[k] = MultipleH1Issue(3)

\* the position of each kind of issue in the order of the checks
CheckOrder(issue) ==
    IF issue.kind \in {"MissingH1", "MultipleH1"} THEN 1
    ELSE IF issue.kind = "Skip" THEN 2
    ELSE IF issue.kind = "StartWithH1" THEN 3
    ELSE IF issue.kind = "MoreH2" THEN 4
    ELSE 0

\* C8: the issues come in the order of the checks: the H1-count issue, the
\* skip issues, the start-level issue (present iff the first record is not
\* level 1, whatever the H1 count), the organization advisory (present iff
\* there is a level-3 record and fewer than two level-2 records).
C8_IssueOrder ==
    (Answered /\ NumHeadings > 0) =>
        /\ \A k \in 1..Len(issues) : CheckOrder(issues[k]) \in 1..4
        /\ \A j, k \in 1..Len(issues) :
            j < k => CheckOrder(issues[j]) <= CheckOrder(issues[k])
        /\ \A j, k \in 1..Len(issues) :
            (j < k /\ CheckOrder(issues[j]) = CheckOrder(issues[k])) =>
                CheckOrder(issues[j]) = 2
        /\ HasIssueKind("StartWithH1") <=> headings[1].level # 1
        /\ HasIssueKind("MoreH2") <=>
            (/\ \E k \in 1..NumHeadings : headings[k].level = 3
             /\ Cardinality({k \in 1..NumHeadings : headings[k].level = 2}) < 2)

C8_Witness ==
    /\ Answered
    /\ NumHeadings = 4
    /\ Len(issues) = 4
    /\ issues[1] = MultipleH1Issue(2)
    /\ issues[2].kind = "Skip"
    /\ issues[3] = StartIssue
    /\ issues[4] = OrganizeIssue

\* the index in the output of the suggestion made for the n-th heading (1-based)
PositionOf(n) == Len(SuggestionsAfter(headings, n))

\* the n-th heading matches the article pattern while the output so far ends at level <= 2
ArticleCase(n) ==
    /\ articleOrGuide(headings[n].text)
    /\ suggestions[PositionOf(n - 1)].level <= 2

\* the n-th heading takes one of the two arms that force level 2
ForcedLevelTwo(n) ==
    \/ sectionTitle(headings[n].text)
    \/ ~ArticleCase(n) /\ footerOrCallToAction(headings[n].text)

\* C1: every suggestion after the first is at most one level deeper than the
\* suggestion right before it in the output, except possibly those made by
\* the section-title and footer arms.
C1_NoLevelSkip ==
    (Answered /\ NumHeadings > 0) =>
        \A k \in 2..Len(suggestions) :
            \/ \E n \in 2..NumHeadings : PositionOf(n) = k /\ ForcedLevelTwo(n)
            \/ suggestions[k].level <= suggestions[k - 1].level + 1

\* C3: the suggestion for each heading after the first has the level of the
\* first arm that applies, section 2, article (output so far ending at level
\* <= 2) 3, footer 2, else min(own level, last output level + 1), where the
\* last output element is the one before this iteration, synthetic or not.
C3_BranchPriority ==
    (Answered /\ NumHeadings > 0) =>
        /\ PositionOf(NumHeadings) = Len(suggestions)
        /\ \A n \in 2..NumHeadings :
            LET heading == headings[n]
                previous == suggestions[PositionOf(n - 1)]
                made == suggestions[PositionOf(n)]
            IN  /\ made.text = heading.text
                /\ made.level =
                    IF sectionTitle(heading.text) THEN 2
                    ELSE IF articleOrGuide(heading.text) /\ previous.level <= 2 THEN 3
                    ELSE IF footerOrCallToAction(heading.text) THEN 2
                    ELSE Min(heading.level, previous.level + 1)

\* article and footer pattern together after a level <= 2, and a default arm
\* that follows a synthetic entry's successor
C3_Witness ==
    /\ Answered
    /\ NumHeadings = 4
    /\ Len(suggestions) = 5
    /\ \E n \in 2..NumHeadings :
        /\ articleOrGuide(headings[n].text)
        /\ footerOrCallToAction(headings[n].text)
        /\ suggestions[PositionOf(n)].level = 3
    /\ \E n \in 2..NumHeadings :
        /\ headings[n].level = 5
        /\ suggestions[PositionOf(n)].level = 4

\* [H1 "Welcome", H2 "Blog Posts", H3 "How to Guide 2024"]
ExampleHeadings ==
    << [level |-> 1, text |-> <<"W","e","l","c","o","m","e">>],
       [level |-> 2, text |-> <<"B","l","o","g"," ","P","o","s","t","s">>],
       [level |-> 3, text |-> <<"H","o","w"," ","t","o"," ","G","u","i","d","e"," ","2","0","2","4">>] >>

ExampleSuggestions == generateImprovedSuggestions(ExampleHeadings)

\* C4: a level-2 "Recent Articles" entry is put right before the suggestion
\* of a heading exactly when that heading takes the article arm and no
\* level-2 suggestion already in the output mentions article, blog or post;
\* nothing is inserted otherwise.
C4_SyntheticInsertion ==
    /\ LevelsOf(ExampleSuggestions) = <<1, 2, 3>>
    /\ TextsOf(ExampleSuggestions) = TextsOf(ExampleHeadings)
    /\ (Answered /\ NumHeadings > 0) =>
        /\ PositionOf(1) = 1
        /\ \A n \in 2..NumHeadings :
            LET before == PositionOf(n - 1)
                after == PositionOf(n)
                articleArm == ~sectionTitle(headings[n].text) /\ ArticleCase(n)
                sectionThere ==
                    \E k \in 1..before :
                        /\ suggestions[k].level = 2
                        /\ articlesMentioned(suggestions[k].text)
            IN  /\ after \in {before + 1, before + 2}
                /\ after = before + 2 <=> (articleArm /\ ~sectionThere)
                /\ after = before + 2 =>
                    suggestions[before + 1] = [level |-> 2, text |-> RecentArticles]
                /\ suggestions[after].text = headings[n].text

\* one article heading gets the synthetic entry, another one after a section
\* that mentions posts does not
C4_Witness ==
    /\ Answered
    /\ NumHeadings = 4
    /\ Len(suggestions) = 5
    /\ suggestions[2] = [level |-> 2, text |-> RecentArticles]
    /\ suggestions[3].level = 3
    /\ sectionTitle(headings[3].text)
    /\ articleOrGuide(headings[4].text)
    /\ suggestions[5].level = 3

Without(seq, k) == [j \in 1..(Len(seq) - 1) |-> IF j < k THEN seq[j] ELSE seq[j + 1]]

\* C10: the output has as many entries as the input or one more; the extra
\* one is a level-2 "Recent Articles" entry, and the output without it has
\* the input's texts in the input's order.
C10_AtMostOneSynthetic ==
    (Answered /\ NumHeadings > 0) =>
        /\ Len(suggestions) \in {NumHeadings, NumHeadings + 1}
        /\ Len(suggestions) = NumHeadings =>
            TextsOf(suggestions) = TextsOf(headings)
        /\ Len(suggestions) = NumHeadings + 1 =>
            \E k \in 2..Len(suggestions) :
                /\ suggestions[k] = [level |-> 2, text |-> RecentArticles]
                /\ TextsOf(Without(suggestions, k)) = TextsOf(headings)

\* two headings take the article arm, only the first gets the synthetic entry
C10_Witness ==
    /\ Answered
    /\ NumHeadings = 4
    /\ Len(suggestions) = 5
    /\ Cardinality({n \in 2..NumHeadings :
                        ~sectionTitle(headings[n].text) /\ ArticleCase(n)}) = 2

\* the request carries no url: no body, or a body whose url is undefined or empty
UrlMissing == ~body.present \/ falsy(body.url)

====
